---- MODULE Spec2Model ----
(***************************************************************************)
(* KrLang BaseObject (src/elements/base_object.py): the member store, the  *)
(* wrapper (hook) registry, the interceptable list and the weaving         *)
(* registry of one object, with one action per public operation.           *)
(***************************************************************************)
EXTENDS Integers, Sequences, FiniteSets, TLC

\* ------------------------------------------------------------------ bounds
MaxHooks == 2        \* hooks registered over all events
MaxMarks == 2        \* length of the _interceptables list
MaxWeave == 2        \* advice pairs registered over all keys

\* ------------------------------------------------------------------ values
Num(n) == [kind |-> "num", n |-> n]
Str(s) == [kind |-> "str", s |-> s]
Func(name) == [kind |-> "func", name |-> name]
Self == [kind |-> "self"]
NoneV == [kind |-> "none"]
\* the closure `wrapped` built by _get_member: it captures key and attr
Proxy(key, attr) == [kind |-> "proxy", key |-> key, attr |-> attr]

AddFn == Func("fn")                 \* a plain function adding its two arguments

Keys == {"x", "call"}               \* member names used as inputs
OkHooks == {"h1", "h2"}             \* hooks that record the call and return
FailHooks == {"hf"}                 \* hooks that record the call and raise
Hooks == OkHooks \cup FailHooks
\* hooks that change the hook list of the event they are called for: "hrm"
\* unregisters itself, "hadd" registers h1
ReentrantHooks == {"hrm", "hadd"}
Pairs == {<<"b1", "a1">>, <<"b2", "a2">>}   \* (before, after) advice pairs
ArgLists == {<<Num(3), Num(4)>>}    \* invocation arguments

\* python's callable(): functions, closures, and every BaseObject (the class
\* defines __call__)
Callable(v) == v.kind \in {"func", "proxy", "self"}

\* python truthiness of a value
Truthy(v) == CASE v.kind = "num" -> v.n # 0
               [] v.kind = "str" -> v.s # ""
               [] v.kind = "none" -> FALSE
               [] OTHER -> TRUE

\* ------------------------------------------------------------------ state
VARIABLES members, wrappers, meta, interceptables, weavings, last

vars == <<members, wrappers, meta, interceptables, weavings, last>>

EmptyMap == [k \in {} |-> NoneV]

\* dict[key] = value
Put(f, k, v) == [j \in (DOMAIN f) \cup {k} |-> IF j = k THEN v ELSE f[j]]
\* del dict[key]
Del(f, k) == [j \in (DOMAIN f) \ {k} |-> f[j]]

\* list.remove(x): drops the first occurrence
RECURSIVE ListRemove(_, _)
ListRemove(s, x) ==
  IF s = <<>> THEN <<>>
  ELSE IF Head(s) = x THEN Tail(s)
  ELSE <<Head(s)>> \o ListRemove(Tail(s), x)

InList(s, x) == \E i \in 1..Len(s) : s[i] = x

\* the number of elements of all the lists of a dict of lists
RECURSIVE SumLen(_, _)
SumLen(f, S) ==
  IF S = {} THEN 0
  ELSE LET k == CHOOSE j \in S : TRUE
       IN Len(f[k]) + SumLen(f, S \ {k})

TotalLen(f) == SumLen(f, DOMAIN f)

\* The object while one operation runs: the five stores, the calls made so
\* far (log), the number of _call_wrappers invocations so far (fire), the
\* exception in flight (exc) and the value returned (ret).
Cur == [members |-> members, wrappers |-> wrappers, meta |-> meta,
        interceptables |-> interceptables, weavings |-> weavings,
        log |-> <<>>, fire |-> 0, exc |-> "none", ret |-> NoneV]

Raise(m, e) == [m EXCEPT !.exc = e, !.ret = NoneV]
Return(m, v) == [m EXCEPT !.ret = v]

\* event names, as the f-strings of the source build them
Ev(prefix, key) == prefix \o key

\* sequencing of two steps of a method: the second step runs on the object
\* the first one left, unless the first one raised
Then(first, rest(_)) ==
  CHOOSE out \in {IF m.exc # "none" THEN m ELSE rest(m) : m \in {first}} : TRUE

\* ------------------------------------------------------------------ hooks
\* what a function called by the object records: its name, the event, the
\* firing, its arguments, and the five stores as it can see them
Entry(m, fn, ev, args) ==
  [fn |-> fn, ev |-> ev, fire |-> m.fire, args |-> args,
   members |-> m.members, wrappers |-> m.wrappers, meta |-> m.meta,
   interceptables |-> m.interceptables, weavings |-> m.weavings]

\* wrapper(*args, **kwargs) of line 180: the hook records what it was called
\* with and the stores it can see; a hook of FailHooks then raises, "hrm"
\* calls _remove_wrapper(e, itself), "hadd" calls _add_wrapper(e, h1) while
\* fewer than MaxHooks hooks are registered
InvokeHook(m, h, e, args) ==
  LET entry == Entry(m, h, e, args)
  IN CASE h \in FailHooks ->
            Raise([m EXCEPT !.log = Append(@, entry)], "HookError")
       [] h = "hrm" ->
            [m EXCEPT !.log = Append(@, entry),
                      !.wrappers[e] = ListRemove(@, h)]
       [] h = "hadd" /\ SumLen(m.wrappers, DOMAIN m.wrappers) < MaxHooks ->
            [m EXCEPT !.log = Append(@, entry),
                      !.wrappers[e] = Append(@, "h1")]
       [] OTHER -> [m EXCEPT !.log = Append(@, entry)]

\* the for loop of _call_wrappers: python iterates the live list by index
RECURSIVE RunWrappers(_, _, _, _)

\* the loop with each hook call in a try/except that drops the error
RunWrappersKeepGoing(m, wrapper_type, args, i) ==
  IF wrapper_type \notin DOMAIN m.wrappers THEN m
  ELSE IF i > Len(m.wrappers[wrapper_type]) THEN m
  ELSE CHOOSE out \in
         {RunWrappers([m1 EXCEPT !.exc = "none"], wrapper_type, args, i + 1) :
            m1 \in {InvokeHook(m, m.wrappers[wrapper_type][i],
                               wrapper_type, args)}} : TRUE

RunWrappers(m, wrapper_type, args, i) ==
  IF wrapper_type \notin DOMAIN m.wrappers THEN m
  ELSE IF i > Len(m.wrappers[wrapper_type]) THEN m
  ELSE Then(InvokeHook(m, m.wrappers[wrapper_type][i], wrapper_type, args),
            LAMBDA m1 : RunWrappers(m1, wrapper_type, args, i + 1))

\* the loop started one hook too late
CallWrappersSkipFirst(m, wrapper_type, args) ==
  IF wrapper_type \in DOMAIN m.wrappers
  THEN RunWrappers([m EXCEPT !.fire = @ + 1], wrapper_type, args, 2)
  ELSE m

CallWrappers(m, wrapper_type, args) ==
  IF wrapper_type \in DOMAIN m.wrappers
  THEN RunWrappers([m EXCEPT !.fire = @ + 1], wrapper_type, args, 1)
  ELSE m

AddWrapperOp(m, wrapper_type, wrapper) ==
  IF wrapper_type \notin DOMAIN m.wrappers
  THEN [m EXCEPT !.wrappers = Put(@, wrapper_type, <<wrapper>>)]
  ELSE [m EXCEPT !.wrappers[wrapper_type] = Append(@, wrapper)]

\* list.remove raises ValueError when the hook is not in the list; an event
\* that is not a key of _wrappers is skipped silently
RemoveWrapperOp(m, wrapper_type, wrapper) ==
  IF wrapper_type \in DOMAIN m.wrappers
  THEN IF InList(m.wrappers[wrapper_type], wrapper)
       THEN [m EXCEPT !.wrappers[wrapper_type] = ListRemove(@, wrapper)]
       ELSE Raise(m, "NoSuchWrapper")
  ELSE m

\* ------------------------------------------------------------------ members
HasMember(m, key) == key \in DOMAIN m.members

IsInterceptable(m, key) ==
  /\ key \in DOMAIN m.members
  /\ Callable(m.members[key])
  /\ InList(m.interceptables, key)

\* self._members[key], a KeyError when a hook has taken the key away
ReadMember(m, key) ==
  IF key \in DOMAIN m.members THEN Return(m, m.members[key])
  ELSE Raise(m, "KeyError")

\* before_get fired ahead of the membership test
GetMemberFiresFirst(m, key) ==
  Then(CallWrappers(m, Ev("before_get_", key), <<Str(key)>>),
    LAMBDA m0 :
      IF key \in DOMAIN m0.members
      THEN Then(ReadMember(m0, key),
             LAMBDA m2 : Then(CallWrappers(m2, Ev("after_get_", key),
                                           <<Str(key), m2.ret>>),
             LAMBDA m3 : IF IsInterceptable(m3, key) /\ Callable(m2.ret)
                         THEN Return(m3, Proxy(key, m2.ret))
                         ELSE Return(m3, m2.ret)))
      ELSE Raise(m0, "NoSuchMember"))

\* the stored value handed out without the interceptable test
GetMemberNoProxy(m, key) ==
  IF key \in DOMAIN m.members
  THEN Then(CallWrappers(m, Ev("before_get_", key), <<Str(key)>>),
         LAMBDA m1 : Then(ReadMember(m1, key),
         LAMBDA m2 : Then(CallWrappers(m2, Ev("after_get_", key),
                                       <<Str(key), m2.ret>>),
         LAMBDA m3 : Return(m3, m2.ret))))
  ELSE Raise(m, "NoSuchMember")

GetMember(m, key) ==
  IF key \in DOMAIN m.members
  THEN Then(CallWrappers(m, Ev("before_get_", key), <<Str(key)>>),
         LAMBDA m1 : Then(ReadMember(m1, key),
         LAMBDA m2 : Then(CallWrappers(m2, Ev("after_get_", key),
                                       <<Str(key), m2.ret>>),
         LAMBDA m3 : IF IsInterceptable(m3, key) /\ Callable(m2.ret)
                     THEN Return(m3, Proxy(key, m2.ret))
                     ELSE Return(m3, m2.ret))))
  ELSE Raise(m, "NoSuchMember")

\* the value written before before_set is fired
SetMemberWriteFirst(m, key, value) ==
  Then(CallWrappers([m EXCEPT !.members = Put(@, key, value)],
                    Ev("before_set_", key), <<Str(key), value>>),
    LAMBDA m1 : Then(CallWrappers(m1, Ev("after_set_", key), <<Str(key), value>>),
    LAMBDA m2 : Return(m2, NoneV)))

\* the value written only after after_set has been fired
SetMemberNotifyFirst(m, key, value) ==
  Then(CallWrappers(m, Ev("before_set_", key), <<Str(key), value>>),
    LAMBDA m1 : Then(CallWrappers(m1, Ev("after_set_", key), <<Str(key), value>>),
    LAMBDA m2 : Return([m2 EXCEPT !.members = Put(@, key, value)], NoneV)))

SetMember(m, key, value) ==
  Then(CallWrappers(m, Ev("before_set_", key), <<Str(key), value>>),
    LAMBDA m1 : Then(CallWrappers([m1 EXCEPT !.members = Put(@, key, value)],
                                  Ev("after_set_", key), <<Str(key), value>>),
    LAMBDA m2 : Return(m2, NoneV)))

\* del self._members[key], a KeyError when a hook has taken the key away
DeleteMember(m, key) ==
  IF key \in DOMAIN m.members THEN [m EXCEPT !.members = Del(@, key)]
  ELSE Raise(m, "KeyError")

RemoveMember(m, key) ==
  IF key \in DOMAIN m.members
  THEN Then(CallWrappers(m, Ev("before_del_", key), <<Str(key)>>),
         LAMBDA m1 : Then(DeleteMember(m1, key),
         LAMBDA m2 : Then(CallWrappers(m2, Ev("after_del_", key), <<Str(key)>>),
         LAMBDA m3 : IF InList(m3.interceptables, key)
                     THEN [m3 EXCEPT !.interceptables = ListRemove(@, key)]
                     ELSE m3)))
  ELSE Raise(m, "NoSuchMember")

\* names with the '_' prefix, which __setattr__ hands to object.__setattr__
ReservedKeys == {"_p"}

\* __setattr__: the value is checked against self, then a '_' name goes to
\* the base class (BaseObject has __slots__: a name that is no slot raises
\* AttributeError), any other name fires the set hooks around _set_member,
\* which fires them again
SetAttr(m, key, value) ==
  IF value = Self THEN Raise(m, "SelfReference")
  ELSE IF key \in ReservedKeys THEN Raise(m, "AttributeError")
  ELSE Then(CallWrappers(m, Ev("before_set_", key), <<Str(key), value>>),
         LAMBDA m1 : Then(SetMember(m1, key, value),
         LAMBDA m2 : Then(CallWrappers(m2, Ev("after_set_", key),
                                       <<Str(key), value>>),
         LAMBDA m3 : Return(m3, NoneV))))

\* __getattr__ (reached when the normal lookup fails): a member is read
\* through _get_member between two more hook firings; any other name ends in
\* AttributeError, which reports the missing name as _get_member does
GetAttr(m, key) ==
  IF key \in DOMAIN m.members
  THEN Then(CallWrappers(m, Ev("before_get_", key), <<Str(key)>>),
         LAMBDA m1 : Then(GetMember(m1, key),
         LAMBDA m2 : Then(CallWrappers(m2, Ev("after_get_", key),
                                       <<Str(key), m2.ret>>),
         LAMBDA m3 : Return(m3, m2.ret))))
  ELSE Raise(m, "NoSuchMember")

\* ------------------------------------------------------------------ interception
\* the key appended without the callable test
SetInterceptableUnchecked(m, key) ==
  IF key \in DOMAIN m.members
  THEN [m EXCEPT !.interceptables = Append(@, key)]
  ELSE m

SetInterceptableOp(m, key) ==
  IF key \in DOMAIN m.members /\ Callable(m.members[key])
  THEN [m EXCEPT !.interceptables = Append(@, key)]
  ELSE m

UnsetInterceptableOp(m, key) ==
  IF InList(m.interceptables, key)
  THEN [m EXCEPT !.interceptables = ListRemove(@, key)]
  ELSE m

\* ------------------------------------------------------------------ weaving
\* before(*args) / after(*args) of lines 407-408: the advice records the call
InvokeAdvice(m, name, args) ==
  [m EXCEPT !.log = Append(@, Entry(m, name, "advice", args))]

\* the body of _get_weaving is its docstring alone: it returns None
GetWeaving(m, key) == NoneV

\* for before, after in weaving: every entry is unpacked into two names
RECURSIVE RunWeaving(_, _, _, _)
RunWeaving(m, items, args, i) ==
  IF i > Len(items) THEN m
  ELSE IF Len(items[i]) # 2 THEN Raise(m, "TypeError")
  ELSE Then(InvokeAdvice(m, items[i][1], args),
         LAMBDA m1 : Then(InvokeAdvice(m1, items[i][2], args),
         LAMBDA m2 : RunWeaving(m2, items, args, i + 1)))

\* iterating None raises TypeError
CallWeaving(m, weaving, args) ==
  IF weaving.kind = "list" THEN RunWeaving(m, weaving.items, args, 1)
  ELSE Raise(m, "TypeError")

AddWeavingOp(m, key, before, after) ==
  IF key \notin DOMAIN m.weavings
  THEN [m EXCEPT !.weavings = Put(@, key, << <<before, after>> >>)]
  ELSE [m EXCEPT !.weavings[key] = Append(@, <<before, after>>)]

\* del list[i] with i counted from 1
DelAt(s, i) == SubSeq(s, 1, i - 1) \o SubSeq(s, i + 1, Len(s))

\* _remove_weaving with "all" using dict.pop(key, None): a missing key passes
RemoveWeavingAllSilent(m, key, side) ==
  IF side = "all"
  THEN [m EXCEPT !.weavings = Del(@, key)]
  ELSE IF side \in {"left", "right"}
  THEN IF key \in DOMAIN m.weavings
       THEN IF (IF side = "left" THEN 1 ELSE 2) \in 1..Len(m.weavings[key])
            THEN [m EXCEPT !.weavings[key] =
                             DelAt(@, IF side = "left" THEN 1 ELSE 2)]
            ELSE Raise(m, "IndexError")
       ELSE Raise(m, "NoSuchWeaving")
  ELSE Raise(m, "InvalidWeavingMode")

\* _remove_weaving: "all" deletes the entry of the key (KeyError when there
\* is none); "left" deletes the list element of python index 0 and "right"
\* the one of python index 1 (IndexError when the list is too short, KeyError
\* when the key has no entry); any other side is a ValueError
RemoveWeavingOp(m, key, side) ==
  IF side = "all"
  THEN IF key \in DOMAIN m.weavings
       THEN [m EXCEPT !.weavings = Del(@, key)]
       ELSE Raise(m, "NoSuchWeaving")
  ELSE IF side \in {"left", "right"}
  THEN IF key \in DOMAIN m.weavings
       THEN IF (IF side = "left" THEN 1 ELSE 2) \in 1..Len(m.weavings[key])
            THEN [m EXCEPT !.weavings[key] =
                             DelAt(@, IF side = "left" THEN 1 ELSE 2)]
            ELSE Raise(m, "IndexError")
       ELSE Raise(m, "NoSuchWeaving")
  ELSE Raise(m, "InvalidWeavingMode")

\* _reload_weaving: the list element of python index 0 ("left") or 1
\* ("right") is assigned the method itself, so the element is no longer a
\* pair; a list entry that is one bare callable is written <<method>>.
\* IndexError when the list is too short, KeyError when the key has no
\* entry, ValueError for any other side
ReloadWeavingOp(m, key, side, method) ==
  IF side \in {"left", "right"}
  THEN IF key \in DOMAIN m.weavings
       THEN IF (IF side = "left" THEN 1 ELSE 2) \in 1..Len(m.weavings[key])
            THEN [m EXCEPT !.weavings[key][IF side = "left" THEN 1 ELSE 2] =
                             <<method>>]
            ELSE Raise(m, "IndexError")
       ELSE Raise(m, "NoSuchWeaving")
  ELSE Raise(m, "InvalidWeavingMode")

\* ------------------------------------------------------------------ meta
\* the default tested for truth (`if default:`) instead of `is not None`
GetMetaTruthyDefault(m, key, default) ==
  IF key \in DOMAIN m.meta THEN Return(m, m.meta[key])
  ELSE IF Truthy(default) THEN Return(m, default)
  ELSE Raise(m, "NoSuchMeta")

\* _get_meta(key, default): the stored value, else a default that is not
\* None, else AttributeError
GetMetaDefault(m, key, default) ==
  IF key \in DOMAIN m.meta THEN Return(m, m.meta[key])
  ELSE IF default # NoneV THEN Return(m, default)
  ELSE Raise(m, "NoSuchMeta")

\* _get_meta(key) with the default left at None
GetMeta(m, key) == GetMetaDefault(m, key, NoneV)

SetMetaOp(m, key, value) == [m EXCEPT !.meta = Put(@, key, value)]

RemoveMetaOp(m, key) ==
  IF key \in DOMAIN m.meta THEN [m EXCEPT !.meta = Del(@, key)]
  ELSE Raise(m, "NoSuchMeta")

HasMeta(m, key) == key \in DOMAIN m.meta

\* ------------------------------------------------------------------ calls
\* a plain python function stored as a member: fn(a, b) = a + b
ApplyFunc(m, f, args) ==
  IF Len(args) = 2 /\ args[1].kind = "num" /\ args[2].kind = "num"
  THEN [m EXCEPT !.log = Append(@, Entry(m, f.name, "call", args)),
                 !.ret = Num(args[1].n + args[2].n)]
  ELSE Raise(m, "TypeError")

RECURSIVE Invoke(_, _, _)
RECURSIVE Call(_, _)

\* the closure `wrapped` returned by _get_member for an interceptable member
Wrapped(m, key, attr, args) ==
  Then(CallWeaving(m, GetWeaving(m, key), args),
    LAMBDA m1 : Then(Invoke(m1, attr, args),
    LAMBDA m2 : Then(CallWeaving(m2, GetWeaving(m2, key), args),
    LAMBDA m3 : Return(m3, m2.ret))))

\* v(*args) for a python value v
Invoke(m, v, args) ==
  CASE v.kind = "func" -> ApplyFunc(m, v, args)
    [] v.kind = "proxy" -> Wrapped(m, v.key, v.attr, args)
    [] v.kind = "self" -> Call(m, args)
    [] OTHER -> Raise(m, "TypeError")

\* caller.has_meta: BaseObject defines _has_meta only, so on the object
\* itself the lookup falls to __getattr__("has_meta"); functions, closures
\* and numbers have no such attribute
LookupHasMeta(m, caller) ==
  IF caller.kind = "self" THEN GetAttr(m, "has_meta")
  ELSE Raise(m, "AttributeError")

\* hasattr(self, "call"): an AttributeError of the lookup means False
HasAttrCall(m) ==
  CHOOSE out \in {IF m1.exc = "NoSuchMember" THEN Raise(m, "NotCallable") ELSE m1
                  : m1 \in {GetAttr(m, "call")}} : TRUE

\* __call__
Call(m, args) ==
  IF HasMember(m, "call")
  THEN Then(GetMember(m, "call"),
         LAMBDA m1 : Then(LookupHasMeta(m1, m1.ret),
         LAMBDA m2 : Then(Invoke(m2, m2.ret, <<Str("to_py_callable")>>),
         LAMBDA m3 : IF Truthy(m3.ret)
                     THEN Then(GetMeta(m3, "to_py_callable"),
                            LAMBDA m4 : Invoke(m4, m4.ret, args))
                     ELSE IF Callable(m1.ret) THEN Invoke(m3, m1.ret, args)
                     ELSE Raise(m3, "NotCallable"))))
  ELSE Then(HasAttrCall(m),
         LAMBDA m1 : Then(GetAttr(m1, "call"),
         LAMBDA m2 : IF Callable(m2.ret)
                     THEN Then(GetAttr(m2, "call"),
                            LAMBDA m3 : Invoke(m3, m3.ret, args))
                     ELSE Raise(m2, "NotCallable")))

\* obj[key](*args): the member is read and the value read is invoked
InvokeMemberOp(m, key, args) ==
  Then(GetMember(m, key), LAMBDA m1 : Invoke(m1, m1.ret, args))

\* _reset clearing the members and the metadata before on_reset is fired
ResetClearsFirst(m) ==
  Then(CallWrappers([m EXCEPT !.members = EmptyMap, !.meta = EmptyMap],
                    "on_reset", <<>>),
    LAMBDA m1 : [m1 EXCEPT !.wrappers = EmptyMap, !.interceptables = <<>>,
                           !.weavings = EmptyMap])

\* _reset firing on_init as well, before the stores are cleared
ResetFiresInit(m) ==
  Then(CallWrappers(m, "on_reset", <<>>),
    LAMBDA m1 : Then(CallWrappers(m1, "on_init", <<>>),
    LAMBDA m2 : [m2 EXCEPT !.members = EmptyMap, !.wrappers = EmptyMap,
                           !.meta = EmptyMap, !.interceptables = <<>>,
                           !.weavings = EmptyMap]))

\* _reset leaving the metadata in place
ResetKeepsMeta(m) ==
  Then(CallWrappers(m, "on_reset", <<>>),
    LAMBDA m1 : [m1 EXCEPT !.members = EmptyMap, !.wrappers = EmptyMap,
                           !.interceptables = <<>>, !.weavings = EmptyMap])

\* _reset
ResetOp(m) ==
  Then(CallWrappers(m, "on_reset", <<>>),
    LAMBDA m1 : [m1 EXCEPT !.members = EmptyMap, !.wrappers = EmptyMap,
                           !.meta = EmptyMap, !.interceptables = <<>>,
                           !.weavings = EmptyMap])

\* __init__: empty stores, then on_init is fired on the empty registry
Construct(args) ==
  CallWrappers([members |-> EmptyMap, wrappers |-> EmptyMap, meta |-> EmptyMap,
                interceptables |-> <<>>, weavings |-> EmptyMap,
                log |-> <<>>, fire |-> 0, exc |-> "none", ret |-> NoneV],
               "on_init", args)

\* ------------------------------------------------------------------ actions
\* the operation just performed: its name and inputs, the exception it
\* raised ("none" when it returned), its return value and the calls it made
Outcome(op, key, val, args, m) ==
  [op |-> op, key |-> key, val |-> val, args |-> args,
   exc |-> m.exc, ret |-> m.ret, log |-> m.log]

\* the stores as the operation left them
Commit(m) ==
  /\ members' = m.members
  /\ wrappers' = m.wrappers
  /\ meta' = m.meta
  /\ interceptables' = m.interceptables
  /\ weavings' = m.weavings

Init ==
  \E m \in {Construct(<<>>)} :
     /\ members = m.members
     /\ wrappers = m.wrappers
     /\ meta = m.meta
     /\ interceptables = m.interceptables
     /\ weavings = m.weavings
     /\ last = Outcome("init", "", NoneV, <<>>, m)

\* obj = BaseObject(*args): the object is constructed anew
Construction(args) ==
  \E m \in {Construct(args)} :
     /\ Commit(m)
     /\ last' = Outcome("construct", "", NoneV, args, m)

GetItem(k) ==
  \E m \in {GetMember(Cur, k)} :
     /\ Commit(m)
     /\ last' = Outcome("getitem", k, NoneV, <<>>, m)

SetItem(k, v) ==
  \E m \in {SetMember(Cur, k, v)} :
     /\ Commit(m)
     /\ last' = Outcome("setitem", k, v, <<>>, m)

DelItem(k) ==
  \E m \in {RemoveMember(Cur, k)} :
     /\ Commit(m)
     /\ last' = Outcome("delitem", k, NoneV, <<>>, m)

GetAttribute(k) ==
  \E m \in {GetAttr(Cur, k)} :
     /\ Commit(m)
     /\ last' = Outcome("getattr", k, NoneV, <<>>, m)

SetAttribute(k, v) ==
  \E m \in {SetAttr(Cur, k, v)} :
     /\ Commit(m)
     /\ last' = Outcome("setattr", k, v, <<>>, m)

DelAttribute(k) ==
  \E m \in {RemoveMember(Cur, k)} :
     /\ Commit(m)
     /\ last' = Outcome("delattr", k, NoneV, <<>>, m)

AddWrapper(e, h) ==
  \E m \in {AddWrapperOp(Cur, e, h)} :
     /\ TotalLen(wrappers) < MaxHooks
     /\ Commit(m)
     /\ last' = Outcome("add_wrapper", e, Str(h), <<>>, m)

RemoveWrapper(e, h) ==
  \E m \in {RemoveWrapperOp(Cur, e, h)} :
     /\ Commit(m)
     /\ last' = Outcome("remove_wrapper", e, Str(h), <<>>, m)

SetInterceptable(k) ==
  \E m \in {SetInterceptableOp(Cur, k)} :
     /\ Len(interceptables) < MaxMarks
     /\ Commit(m)
     /\ last' = Outcome("set_interceptable", k, NoneV, <<>>, m)

UnsetInterceptable(k) ==
  \E m \in {UnsetInterceptableOp(Cur, k)} :
     /\ Commit(m)
     /\ last' = Outcome("unset_interceptable", k, NoneV, <<>>, m)

AddWeaving(k, p) ==
  \E m \in {AddWeavingOp(Cur, k, p[1], p[2])} :
     /\ TotalLen(weavings) < MaxWeave
     /\ Commit(m)
     /\ last' = Outcome("add_weaving", k, NoneV, <<>>, m)

RemoveWeaving(k, side) ==
  \E m \in {RemoveWeavingOp(Cur, k, side)} :
     /\ Commit(m)
     /\ last' = Outcome("remove_weaving", k, Str(side), <<>>, m)

GetMetaItem(k, d) ==
  \E m \in {GetMetaDefault(Cur, k, d)} :
     /\ Commit(m)
     /\ last' = Outcome("get_meta", k, d, <<>>, m)

SetMeta(k, v) ==
  \E m \in {SetMetaOp(Cur, k, v)} :
     /\ Commit(m)
     /\ last' = Outcome("set_meta", k, v, <<>>, m)

RemoveMeta(k) ==
  \E m \in {RemoveMetaOp(Cur, k)} :
     /\ Commit(m)
     /\ last' = Outcome("remove_meta", k, NoneV, <<>>, m)

ReloadWeaving(k, side, method) ==
  \E m \in {ReloadWeavingOp(Cur, k, side, method)} :
     /\ Commit(m)
     /\ last' = Outcome("reload_weaving", k, Str(side), <<>>, m)

InvokeMember(k, args) ==
  \E m \in {InvokeMemberOp(Cur, k, args)} :
     /\ Commit(m)
     /\ last' = Outcome("invoke", k, NoneV, args, m)

CallObject(args) ==
  \E m \in {Call(Cur, args)} :
     /\ Commit(m)
     /\ last' = Outcome("call", "", NoneV, args, m)

Reset ==
  \E m \in {ResetOp(Cur)} :
     /\ Commit(m)
     /\ last' = Outcome("reset", "", NoneV, <<>>, m)

\* inputs of Spec: one member name, hooks on three of its events
HookKeys == {"x"}
HookValues == {Num(1), AddFn}
WrapEvents == {"before_set_x", "after_get_x", "after_del_x"}

Next ==
  \/ \E k \in HookKeys : GetItem(k)
  \/ \E k \in HookKeys, v \in HookValues : SetItem(k, v)
  \/ \E k \in HookKeys : DelItem(k)
  \/ \E k \in HookKeys : GetAttribute(k)
  \/ \E k \in HookKeys, v \in HookValues \cup {Self} : SetAttribute(k, v)
  \/ \E k \in HookKeys : DelAttribute(k)
  \/ \E e \in WrapEvents, h \in Hooks : AddWrapper(e, h)
  \/ \E e \in WrapEvents, h \in Hooks : RemoveWrapper(e, h)
  \/ \E k \in HookKeys : SetInterceptable(k)
  \/ \E k \in HookKeys : UnsetInterceptable(k)
  \/ Reset

Spec == Init /\ [][Next]_vars

\* inputs of SpecWeave: two member names, advice pairs, no hooks
WeaveValues == {Num(1), AddFn}

NextWeave ==
  \/ \E k \in Keys : GetItem(k)
  \/ \E k \in Keys, v \in WeaveValues : SetItem(k, v)
  \/ \E k \in Keys : DelItem(k)
  \/ \E k \in Keys : SetInterceptable(k)
  \/ \E k \in Keys : UnsetInterceptable(k)
  \/ \E k \in Keys, p \in Pairs : AddWeaving(k, p)
  \/ \E k \in Keys, a \in ArgLists : InvokeMember(k, a)
  \/ \E a \in ArgLists : CallObject(a)
  \/ Reset

SpecWeave == Init /\ [][NextWeave]_vars

\* inputs of SpecSelf: the object itself among the values set
SelfValues == {Num(1), Self}

NextSelf ==
  \/ \E k \in Keys : GetItem(k)
  \/ \E k \in Keys, v \in SelfValues : SetItem(k, v)
  \/ \E k \in Keys, v \in SelfValues : SetAttribute(k, v)
  \/ \E k \in Keys : DelItem(k)
  \/ \E k \in Keys : SetInterceptable(k)

SpecSelf == Init /\ [][NextSelf]_vars

\* inputs of SpecUnweave: advice pairs registered and removed on two keys
Sides == {"all", "left", "right", "middle"}

NextUnweave ==
  \/ \E k \in Keys, p \in Pairs : AddWeaving(k, p)
  \/ \E k \in Keys, side \in Sides : RemoveWeaving(k, side)
  \/ \E k \in Keys, v \in WeaveValues : SetItem(k, v)
  \/ \E k \in Keys : DelItem(k)

SpecUnweave == Init /\ [][NextUnweave]_vars

\* inputs of SpecReset: every store filled, hooks on on_reset and on_init
MetaKeys == {"tag"}
ResetValues == {Num(1), AddFn}
ResetHooks == {"h1", "hf"}
ResetEvents == {"on_reset", "on_init"}
ResetPairs == {<<"b1", "a1">>}

NextReset ==
  \/ \E k \in HookKeys : GetItem(k)
  \/ \E k \in HookKeys, v \in ResetValues : SetItem(k, v)
  \/ \E k \in MetaKeys : SetMeta(k, Num(1))
  \/ \E k \in MetaKeys : GetMetaItem(k, NoneV)
  \/ \E k \in HookKeys : SetInterceptable(k)
  \/ \E k \in HookKeys, p \in ResetPairs : AddWeaving(k, p)
  \/ \E e \in ResetEvents, h \in ResetHooks : AddWrapper(e, h)
  \/ \E a \in ArgLists : Construction(a)
  \/ Reset

SpecReset == Init /\ [][NextReset]_vars

\* inputs of SpecReserved: a name with the '_' prefix among the names used
ReservedInputs == {"x"} \cup ReservedKeys
ReservedEvents == {"before_set__p", "after_get__p", "before_del__p"}

NextReserved ==
  \/ \E k \in ReservedInputs : GetItem(k)
  \/ \E k \in ReservedInputs : SetItem(k, Num(1))
  \/ \E k \in ReservedInputs : DelItem(k)
  \/ \E k \in ReservedInputs : GetAttribute(k)
  \/ \E k \in ReservedInputs : SetAttribute(k, Num(1))
  \/ \E k \in ReservedInputs : DelAttribute(k)
  \/ \E e \in ReservedEvents, h \in OkHooks : AddWrapper(e, h)

SpecReserved == Init /\ [][NextReserved]_vars

\* inputs of SpecNotify: hooks on the set and delete events of one member
NotifyEvents == {"before_set_x", "after_set_x", "before_del_x", "after_del_x"}
NotifyHooks == {"h1", "hf"}

NextNotify ==
  \/ \E k \in HookKeys : GetItem(k)
  \/ \E k \in HookKeys, v \in HookValues : SetItem(k, v)
  \/ \E k \in HookKeys : DelItem(k)
  \/ \E k \in HookKeys, v \in HookValues : SetAttribute(k, v)
  \/ \E k \in HookKeys : DelAttribute(k)
  \/ \E e \in NotifyEvents, h \in NotifyHooks : AddWrapper(e, h)
  \/ \E e \in NotifyEvents, h \in NotifyHooks : RemoveWrapper(e, h)

SpecNotify == Init /\ [][NextNotify]_vars

\* inputs of SpecReentrant: hooks of one event that change its hook list
ReentrantEvents == {"before_set_x"}

NextReentrant ==
  \/ \E k \in HookKeys : SetItem(k, Num(1))
  \/ \E k \in HookKeys : GetItem(k)
  \/ \E e \in ReentrantEvents, h \in OkHooks \cup ReentrantHooks :
       AddWrapper(e, h)
  \/ \E e \in ReentrantEvents, h \in OkHooks \cup ReentrantHooks :
       RemoveWrapper(e, h)

SpecReentrant == Init /\ [][NextReentrant]_vars

\* inputs of SpecMeta: two metadata keys, falsy and null values and defaults
MetaNames == {"tag", "to_py_callable"}
MetaValues == {Num(0), Num(1), Str(""), NoneV}
Defaults == {NoneV, Num(0), Str(""), Num(7)}

NextMeta ==
  \/ \E k \in MetaNames, v \in MetaValues : SetMeta(k, v)
  \/ \E k \in MetaNames, d \in Defaults : GetMetaItem(k, d)
  \/ \E k \in MetaNames : RemoveMeta(k)

SpecMeta == Init /\ [][NextMeta]_vars

\* inputs of SpecReload: advice registered, removed and reloaded on two keys
Methods == {"m1"}

NextReload ==
  \/ \E k \in Keys, p \in Pairs : AddWeaving(k, p)
  \/ \E k \in Keys, side \in Sides : RemoveWeaving(k, side)
  \/ \E k \in Keys, side \in Sides, f \in Methods : ReloadWeaving(k, side, f)

SpecReload == Init /\ [][NextReload]_vars

\* inputs of SpecAbsent: hooks on the before events of a get and a delete
AbsentEvents == {"before_get_x", "before_del_x"}

NextAbsent ==
  \/ \E k \in HookKeys : GetItem(k)
  \/ \E k \in HookKeys, v \in HookValues : SetItem(k, v)
  \/ \E k \in HookKeys : DelItem(k)
  \/ \E k \in HookKeys : GetAttribute(k)
  \/ \E k \in HookKeys : DelAttribute(k)
  \/ \E e \in AbsentEvents, h \in NotifyHooks : AddWrapper(e, h)
  \/ \E e \in AbsentEvents, h \in NotifyHooks : RemoveWrapper(e, h)

SpecAbsent == Init /\ [][NextAbsent]_vars

\* ------------------------------------------------------------------ properties
IsSetOp(o) == o \in {"setitem", "setattr"}
IsDelOp(o) == o \in {"delitem", "delattr"}

\* the calls of hooks made by the f-th _call_wrappers of an operation
HookEntries(log, f) == SelectSeq(log, LAMBDA e : e.fn \in Hooks /\ e.fire = f)
Firings(log) == {log[i].fire : i \in {j \in 1..Len(log) : log[j].fn \in Hooks}}

\* the store changes only through the operations that write it
MembersFrame ==
  \A k \in Keys :
    /\ (k \in DOMAIN members' /\ (k \notin DOMAIN members
                                   \/ members'[k] # members[k]))
         => IsSetOp(last'.op) /\ last'.key = k /\ members'[k] = last'.val
    /\ (k \in DOMAIN members /\ k \notin DOMAIN members')
         => \/ IsDelOp(last'.op) /\ last'.key = k
            \/ last'.op = "reset"

\* a set that returns has stored its value
SetStores ==
  \A k \in Keys :
    (last'.op = "setitem" /\ last'.key = k /\ last'.exc = "none")
      => k \in DOMAIN members' /\ members'[k] = last'.val

\* C1 (as stated): a get of a key that is no member fails with NoSuchMember,
\* a set that returns stores its value, the stored value changes only by a
\* set, a removal or a reset, and a get that returns gives back exactly the
\* stored value.
C1_GetReturnsExactlyStored ==
  [][ /\ MembersFrame
      /\ SetStores
      /\ \A k \in Keys :
           (last'.op = "getitem" /\ last'.key = k)
             => IF k \notin DOMAIN members
                THEN last'.exc = "NoSuchMember"
                ELSE last'.exc = "none" => last'.ret = members[k] ]_vars

\* C1 (amended): as above, but a get that returns gives back the stored
\* value v itself unless the key is in the interceptable list and v is
\* callable, and then the advice proxy built over v; a get of a member fails
\* only with the failure of one of its hooks.
C1_GetReturnsStoredOrProxy ==
  [][ /\ MembersFrame
      /\ SetStores
      /\ \A k \in Keys :
           (last'.op = "getitem" /\ last'.key = k)
             => IF k \notin DOMAIN members
                THEN last'.exc = "NoSuchMember" /\ last'.log = <<>>
                ELSE /\ last'.exc \in {"none", "HookError"}
                     /\ last'.exc = "none" =>
                          last'.ret = IF InList(interceptables, k)
                                         /\ Callable(members[k])
                                      THEN Proxy(k, members[k])
                                      ELSE members[k] ]_vars

\* a get has returned the advice proxy of the stored function
C1_Witness ==
  /\ last.op = "getitem" /\ last.key = "x" /\ last.exc = "none"
  /\ last.ret = Proxy("x", AddFn)
  /\ members["x"] = AddFn

\* C2: no set stores the object itself as a member: a set of Self fails with
\* SelfReference through every entry point, and no member ever holds Self.
C2_NoSelfReference ==
  /\ \A k \in DOMAIN members : members[k] # Self
  /\ (IsSetOp(last.op) /\ last.val = Self) => last.exc = "SelfReference"

\* C3: every firing of an event invokes the hooks registered for it in
\* registration order, each once, all with the same arguments; the hooks
\* after a hook that raises are the only ones left out.
C3_HooksInRegistrationOrder ==
  [][ \A f \in Firings(last'.log) :
        LET es == HookEntries(last'.log, f)
            E == es[1].ev
        IN /\ E \in DOMAIN wrappers
           /\ Len(es) <= Len(wrappers[E])
           /\ \A i \in 1..Len(es) :
                /\ es[i].fn = wrappers[E][i]
                /\ es[i].ev = E
                /\ es[i].args = es[1].args
           /\ \A i \in 1..(Len(es) - 1) : es[i].fn \notin FailHooks
           /\ \/ Len(es) = Len(wrappers[E])
              \/ es[Len(es)].fn \in FailHooks ]_vars

\* a set has fired before_set_x with h1 and h2 registered in that order
C3_Witness ==
  /\ last.op = "setitem" /\ last.exc = "none"
  /\ Len(last.log) = 2
  /\ last.log[1].fn = "h1" /\ last.log[2].fn = "h2"
  /\ last.log[1].ev = "before_set_x" /\ last.log[2].ev = "before_set_x"

\* C4: removing a hook that is not registered for the event fails with
\* NoSuchWrapper, whether the event has a hook list or never had one, and
\* leaves the registry as it was.
C4_UnregisterUnknownFails ==
  [][ (/\ last'.op = "remove_wrapper"
       /\ \/ last'.key \notin DOMAIN wrappers
          \/ ~InList(wrappers[last'.key], last'.val.s))
        => last'.exc = "NoSuchWrapper" /\ wrappers' = wrappers ]_vars

\* the calls of hook h made for event e
CallsOf(log, h, e) == SelectSeq(log, LAMBDA x : x.fn = h /\ x.ev = e)

\* what a get of key k returns in the state the step ends in
GetAfter(k) == GetMember(Cur', k)

\* C5 (as stated): with one hook on before_set_x, a set of x to v calls the
\* hook once, with ("x", v), while the store still holds the old value; the
\* set returns, and a get of x then returns v.
C5_HookOnceThenGetReturnsValue ==
  [][ \A v \in HookValues, h \in OkHooks :
        (/\ last'.op = "setitem" /\ last'.key = "x" /\ last'.val = v
         /\ "before_set_x" \in DOMAIN wrappers
         /\ wrappers["before_set_x"] = <<h>>)
          => LET es == CallsOf(last'.log, h, "before_set_x")
             IN /\ Len(es) = 1
                /\ es[1].args = <<Str("x"), v>>
                /\ es[1].members = members
                /\ last'.log[1] = es[1]
                /\ last'.exc = "none"
                /\ members'["x"] = v
                /\ GetAfter("x").exc = "none" => GetAfter("x").ret = v ]_vars

\* C5 (amended): as above, but the get of x returns v itself unless x is in
\* the interceptable list and v is callable, and then the advice proxy built
\* over v.
C5_HookOnceThenGetReturnsValueOrProxy ==
  [][ \A v \in HookValues, h \in OkHooks :
        (/\ last'.op = "setitem" /\ last'.key = "x" /\ last'.val = v
         /\ "before_set_x" \in DOMAIN wrappers
         /\ wrappers["before_set_x"] = <<h>>)
          => LET es == CallsOf(last'.log, h, "before_set_x")
             IN /\ Len(es) = 1
                /\ es[1].args = <<Str("x"), v>>
                /\ es[1].members = members
                /\ last'.log[1] = es[1]
                /\ last'.exc = "none"
                /\ members'["x"] = v
                /\ GetAfter("x").exc \in {"none", "HookError"}
                /\ GetAfter("x").exc = "none" =>
                     GetAfter("x").ret = IF InList(interceptables', "x")
                                            /\ Callable(v)
                                         THEN Proxy("x", v)
                                         ELSE v ]_vars

\* a set of x has called the one before_set_x hook and overwritten the value
\* the hook saw
C5_Witness ==
  /\ last.op = "setitem" /\ last.key = "x" /\ last.exc = "none"
  /\ last.val = AddFn
  /\ Len(last.log) = 1
  /\ last.log[1].fn = "h1" /\ last.log[1].ev = "before_set_x"
  /\ last.log[1].args = <<Str("x"), AddFn>>
  /\ "x" \in DOMAIN last.log[1].members
  /\ last.log[1].members["x"] = Num(1)
  /\ members["x"] = AddFn

\* the outcome of an operation as its caller and its hooks see it
Observed(m) ==
  [members |-> m.members, wrappers |-> m.wrappers, meta |-> m.meta,
   interceptables |-> m.interceptables, weavings |-> m.weavings,
   exc |-> m.exc, ret |-> m.ret,
   calls |-> [i \in 1..Len(m.log) |->
                <<m.log[i].fn, m.log[i].ev, m.log[i].args>>]]

\* C6: for a name without the '_' prefix the attribute-style get, set and
\* delete do what the indexed ones do: the same hook calls with the same
\* arguments, the same result or error, the same stores.
C6_AttributeSameAsIndexed ==
  \A k \in HookKeys \ ReservedKeys :
    /\ Observed(GetAttr(Cur, k)) = Observed(GetMember(Cur, k))
    /\ \A v \in HookValues :
         Observed(SetAttr(Cur, k, v)) = Observed(SetMember(Cur, k, v))

\* C7: with the plain function fn as member "call", marked interceptable and
\* with an advice pair registered, calling the object with (a, b) returns
\* fn(a, b) without error.
C7_CallReturnsSum ==
  (/\ last.op = "call"
   /\ "call" \in DOMAIN members /\ members["call"] = AddFn
   /\ InList(interceptables, "call")
   /\ "call" \in DOMAIN weavings /\ weavings["call"] # <<>>)
    => /\ last.exc = "none"
       /\ last.ret = Num(last.args[1].n + last.args[2].n)

RECURSIVE Column(_, _)
Column(pairs, j) ==
  IF pairs = <<>> THEN <<>>
  ELSE <<pairs[1][j]>> \o Column(Tail(pairs), j)

\* C8: invoking the advice proxy of an interceptable function member calls
\* b1..bn, the function, a1..an, each once and with the arguments of the
\* invocation, and returns the result of the function.
C8_ProxyCallSequence ==
  \A k \in Keys :
    (/\ last.op = "invoke" /\ last.key = k
     /\ k \in DOMAIN members /\ members[k] = AddFn
     /\ InList(interceptables, k)
     /\ k \in DOMAIN weavings)
      => /\ last.exc = "none"
         /\ [i \in 1..Len(last.log) |-> last.log[i].fn]
              = Column(weavings[k], 1) \o <<"fn">> \o Column(weavings[k], 2)
         /\ \A i \in 1..Len(last.log) : last.log[i].args = last.args
         /\ last.ret = Num(last.args[1].n + last.args[2].n)

\* C9: a removal that deletes member k leaves k out of the interceptable
\* list, also when k was marked more than once and when an after_del_k hook
\* raises.
C9_RemoveClearsInterceptable ==
  [][ \A k \in Keys :
        (/\ IsDelOp(last'.op) /\ last'.key = k
         /\ k \in DOMAIN members /\ k \notin DOMAIN members')
          => ~InList(interceptables', k) ]_vars

\* C10: marking a key that is no member, or whose member is not callable,
\* raises nothing and leaves every store as it was.
C10_MarkIgnoredLeavesStores ==
  [][ \A k \in Keys :
        (/\ last'.op = "set_interceptable" /\ last'.key = k
         /\ \/ k \notin DOMAIN members
            \/ ~Callable(members[k]))
          => /\ last'.exc = "none"
             /\ UNCHANGED <<members, wrappers, meta, interceptables, weavings>>
    ]_vars

\* the number 1 stored as x has been marked, with call already in the list
C10_Witness ==
  /\ last.op = "set_interceptable" /\ last.key = "x" /\ last.exc = "none"
  /\ "x" \in DOMAIN members /\ members["x"] = Num(1)
  /\ interceptables = <<"call">>
\* the stores other than the weavings are as they were
NonWeavingsUnchanged ==
  /\ members' = members
  /\ wrappers' = wrappers
  /\ meta' = meta
  /\ interceptables' = interceptables

\* C11: _remove_weaving(k, "all") on a key that has an entry returns, leaves
\* no entry for k and leaves every other key's entry and every other store
\* as it was; on a key that has no entry (so also when it is called a second
\* time in a row) it fails with NoSuchWeaving and changes nothing.
C11_RemoveAllWeavings ==
  [][(last'.op = "remove_weaving" /\ last'.val = Str("all"))
       => /\ NonWeavingsUnchanged
          /\ IF last'.key \in DOMAIN weavings
             THEN /\ last'.exc = "none"
                  /\ last'.key \notin DOMAIN weavings'
                  /\ DOMAIN weavings' = DOMAIN weavings \ {last'.key}
                  /\ \A j \in DOMAIN weavings' : weavings'[j] = weavings[j]
             ELSE /\ last'.exc = "NoSuchWeaving"
                  /\ weavings' = weavings]_vars

\* "all" has just removed the pairs of one key while the other key keeps its
\* pairs
C11_Witness ==
  /\ last.op = "remove_weaving"
  /\ last.val = Str("all")
  /\ last.exc = "none"
  /\ last.key \notin DOMAIN weavings
  /\ \E j \in DOMAIN weavings : Len(weavings[j]) >= 1

\* C12: on a key with n >= 1 pairs the mode for the first pair ("left")
\* removes exactly the first-registered pair and the mode for the last pair
\* ("right") exactly the last-registered pair, the other pairs keeping their
\* order; a mode that is none of "all", "left", "right" fails with
\* InvalidWeavingMode and changes nothing.
C12_PositionalRemoval ==
  [][(last'.op = "remove_weaving" /\ last'.val # Str("all"))
       => /\ NonWeavingsUnchanged
          /\ (/\ last'.val = Str("left")
              /\ last'.key \in DOMAIN weavings
              /\ Len(weavings[last'.key]) >= 1)
               => /\ last'.exc = "none"
                  /\ weavings' = [weavings EXCEPT ![last'.key] = Tail(@)]
          /\ (/\ last'.val = Str("right")
              /\ last'.key \in DOMAIN weavings
              /\ Len(weavings[last'.key]) >= 1)
               => /\ last'.exc = "none"
                  /\ weavings' = [weavings EXCEPT ![last'.key] =
                                    SubSeq(@, 1, Len(@) - 1)]
          /\ last'.val \notin {Str("left"), Str("right")}
               => /\ last'.exc = "InvalidWeavingMode"
                  /\ weavings' = weavings]_vars

\* the five stores of an object just constructed
Fresh == Construct(<<>>)

\* C13: after a reset that returns the object is as a freshly constructed
\* one: the five stores are those of a new object, so no member and no
\* metadata key is present (has is false, get fails) and no hook, mark or
\* advice is registered; the reset has called no on_init hook.
C13_ResetGivesFreshObject ==
  (last.op = "reset" /\ last.exc = "none")
    => /\ members = Fresh.members
       /\ wrappers = Fresh.wrappers
       /\ meta = Fresh.meta
       /\ interceptables = Fresh.interceptables
       /\ weavings = Fresh.weavings
       /\ \A k \in Keys \cup ReservedKeys :
            /\ ~HasMember(Cur, k)
            /\ GetMember(Cur, k).exc = "NoSuchMember"
            /\ ~IsInterceptable(Cur, k)
       /\ \A k \in MetaKeys \cup {"to_py_callable"} :
            /\ ~HasMeta(Cur, k)
            /\ GetMeta(Cur, k).exc = "NoSuchMeta"
       /\ \A i \in 1..Len(last.log) : last.log[i].ev = "on_reset"

\* a reset has returned after its on_reset hook saw a member, a metadata
\* key, a mark, an advice pair and a registered on_init hook
C13_Witness ==
  /\ last.op = "reset"
  /\ last.exc = "none"
  /\ Len(last.log) >= 1
  /\ last.log[1].members # EmptyMap
  /\ last.log[1].meta # EmptyMap
  /\ "on_init" \in DOMAIN last.log[1].wrappers
  /\ members = EmptyMap
  /\ meta = EmptyMap

\* C14: no key of the member store begins with '_', and a get, set or delete
\* of such a name, indexed or attribute-style, calls no hook.
C14_NoReservedMember ==
  /\ \A k \in DOMAIN members : k \notin ReservedKeys
  /\ (last.key \in ReservedKeys /\ last.op # "add_wrapper")
       => last.log = <<>>

\* C15: a call of the object fails with NotCallable, and with no other
\* error, when the object has no call member (and no call attribute) or when
\* its call member is a value that cannot be invoked, such as a number.
C15_CallFailsNotCallable ==
  (/\ last.op = "call"
   /\ \/ "call" \notin DOMAIN members
      \/ ~Callable(members["call"]))
    => last.exc = "NotCallable"

\* the event of the hook call that ended the operation with an error
FailedEvent(o) ==
  IF o.exc = "HookError" /\ o.log # <<>> THEN o.log[Len(o.log)].ev ELSE "none"

\* C16: a set or delete of k on which a before_set_k / before_del_k hook
\* fails leaves the member store as it was; one on which an after_set_k /
\* after_del_k hook fails reports the error with the value already written,
\* respectively the key already deleted.
C16_ApplyThenNotify ==
  [][\A k \in HookKeys :
       (last'.key = k /\ (IsSetOp(last'.op) \/ IsDelOp(last'.op)))
         => /\ FailedEvent(last') \in {Ev("before_set_", k), Ev("before_del_", k)}
                 => members' = members
            /\ FailedEvent(last') = Ev("after_set_", k)
                 => /\ last'.exc = "HookError"
                    /\ k \in DOMAIN members'
                    /\ members'[k] = last'.val
            /\ FailedEvent(last') = Ev("after_del_", k)
                 => /\ last'.exc = "HookError"
                    /\ k \in DOMAIN members
                    /\ k \notin DOMAIN members']_vars

\* a set has ended in the error of an after_set_x hook, its before_set_x
\* hook saw the old value and the store holds the new one
C16_Witness ==
  /\ last.op = "setitem"
  /\ last.key = "x"
  /\ FailedEvent(last) = "after_set_x"
  /\ Len(last.log) = 2
  /\ last.log[1].ev = "before_set_x"
  /\ "x" \in DOMAIN last.log[1].members
  /\ last.log[1].members["x"] # last.val
  /\ members["x"] = last.val

\* the hooks registered for an event, in order
Registered(w, e) == IF e \in DOMAIN w THEN w[e] ELSE <<>>

\* C17: when hooks of an event register or unregister hooks of that event
\* while it is fired, the hooks called by the firing are exactly those
\* registered when it started, each once, in registration order.
C17_FiringStableUnderMutation ==
  [][(last'.op = "setitem" /\ last'.key = "x")
       => [i \in 1..Len(last'.log) |-> last'.log[i].fn]
            = Registered(wrappers, "before_set_x")]_vars

\* C18: _get_meta(key, default) returns the stored value when the key is
\* present, whatever the default; when the key is absent it returns every
\* default that is not None, 0 and "" included, and fails with NoSuchMeta
\* for the default None; it never changes the metadata or any other store.
C18_GetMetaHonoursDefault ==
  [][last'.op = "get_meta"
       => /\ meta' = meta
          /\ members' = members
          /\ wrappers' = wrappers
          /\ interceptables' = interceptables
          /\ weavings' = weavings
          /\ IF last'.key \in DOMAIN meta
             THEN last'.exc = "none" /\ last'.ret = meta[last'.key]
             ELSE IF last'.val # NoneV
             THEN last'.exc = "none" /\ last'.ret = last'.val
             ELSE last'.exc = "NoSuchMeta"]_vars

\* a get of an absent key has returned its falsy default
C18_Witness ==
  /\ last.op = "get_meta"
  /\ last.key \notin DOMAIN meta
  /\ last.val \in {Num(0), Str("")}
  /\ last.exc = "none"
  /\ last.ret = last.val

\* C19: after _unset_interceptable(k), however often k was marked before, k
\* is not in the interceptable list and a get of k returns the stored value,
\* not the advice proxy; on a key that is not marked it changes nothing.
C19_UnmarkClearsEveryMark ==
  [][last'.op = "unset_interceptable"
       => /\ ~InList(interceptables', last'.key)
          /\ members' = members
          /\ last'.key \in DOMAIN members'
               => GetMember(Cur', last'.key).ret = members'[last'.key]
          /\ ~InList(interceptables, last'.key)
               => interceptables' = interceptables]_vars

\* the five stores are as they were
StoresUnchanged ==
  /\ members' = members
  /\ wrappers' = wrappers
  /\ meta' = meta
  /\ interceptables' = interceptables
  /\ weavings' = weavings

\* C20: every hook called by a reset is an on_reset hook and sees the
\* members, metadata, marks, advice and hooks the object had before the
\* reset; a reset on which an on_reset hook fails clears none of the five
\* stores, one that returns has cleared all five.
C20_ResetFiresBeforeClearing ==
  [][last'.op = "reset"
       => /\ \A i \in 1..Len(last'.log) :
               /\ last'.log[i].ev = "on_reset"
               /\ last'.log[i].members = members
               /\ last'.log[i].meta = meta
               /\ last'.log[i].interceptables = interceptables
               /\ last'.log[i].weavings = weavings
               /\ last'.log[i].wrappers = wrappers
          /\ last'.exc # "none" => StoresUnchanged
          /\ last'.exc = "none"
               => /\ members' = EmptyMap
                  /\ wrappers' = EmptyMap
                  /\ meta' = EmptyMap
                  /\ interceptables' = <<>>
                  /\ weavings' = EmptyMap]_vars

\* a reset has failed in its second on_reset hook: both hooks saw the member,
\* the metadata, the mark and the advice pair, which are all still there
C20_Witness ==
  /\ last.op = "reset"
  /\ last.exc = "HookError"
  /\ Len(last.log) = 2
  /\ last.log[2].members = members
  /\ "x" \in DOMAIN members
  /\ "tag" \in DOMAIN meta
  /\ interceptables # <<>>
  /\ "x" \in DOMAIN weavings
  /\ "on_reset" \in DOMAIN wrappers

\* obj[k] = fn; obj._set_interceptable(k); obj[k](3, 4) on the object m
Reapplied(m, k) ==
  Then(SetMember(m, k, AddFn),
    LAMBDA m1 : Then(SetInterceptableOp(m1, k),
    LAMBDA m2 : InvokeMemberOp(m2, k, <<Num(3), Num(4)>>)))

\* C21: a removal of member k leaves the weavings as they were, and the
\* pairs kept for k apply again: when k is then set to a function, marked
\* and invoked, the invocation returns and has called the before and the
\* after advice of every pair registered for k.
C21_WeavingsOutliveMember ==
  [][ \A k \in Keys :
        (IsDelOp(last'.op) /\ last'.key = k /\ last'.exc = "none")
          => /\ weavings' = weavings
             /\ (k \in DOMAIN weavings' /\ weavings'[k] # <<>>)
                  => LET again == Reapplied(Cur', k)
                     IN /\ again.exc = "none"
                        /\ \A i \in 1..Len(weavings'[k]) : \A j \in 1..2 :
                             \E n \in 1..Len(again.log) :
                               /\ again.log[n].ev = "advice"
                               /\ again.log[n].fn = weavings'[k][i][j] ]_vars

\* the frame part of C21 alone: a removal never changes the weavings
RemoveLeavesWeavings ==
  [][IsDelOp(last'.op) => weavings' = weavings]_vars

\* the position of the first hook of FailHooks in a hook list, 0 if none
FirstFailing(hs) ==
  IF \E i \in 1..Len(hs) : hs[i] \in FailHooks
  THEN CHOOSE i \in 1..Len(hs) :
         hs[i] \in FailHooks /\ \A j \in 1..(i - 1) : hs[j] \notin FailHooks
  ELSE 0

\* C22: when the hook list of a fired event holds a hook that fails, the
\* firing calls the hooks registered before it, each once and in order, then
\* the failing hook, and no hook registered after it; nothing else is called
\* afterwards and the operation ends with the error of the hook.
C22_FailingHookAbortsFiring ==
  [][ \A f \in Firings(last'.log) :
        LET es == HookEntries(last'.log, f)
            hs == Registered(wrappers, es[1].ev)
            p == FirstFailing(hs)
        IN p > 0
             => /\ Len(es) = p
                /\ \A i \in 1..p : es[i].fn = hs[i]
                /\ last'.log[Len(last'.log)] = es[p]
                /\ last'.exc = "HookError" ]_vars

\* a set has ended in the error of the first before_set_x hook, with a second
\* hook registered after it that was not called
C22_Witness ==
  /\ last.op = "setitem"
  /\ last.exc = "HookError"
  /\ Registered(wrappers, "before_set_x") = <<"hf", "h1">>
  /\ Len(last.log) = 1
  /\ last.log[1].fn = "hf"
  /\ last.log[1].ev = "before_set_x"

\* C23: no hook registered under on_init is ever called: a construction
\* fires on_init on the registry it has just emptied and so calls nothing,
\* and no other operation, reset included, fires on_init.
C23_InitHookNeverRuns ==
  /\ \A i \in 1..Len(last.log) : last.log[i].ev # "on_init"
  /\ last.op \in {"init", "construct"}
       => /\ last.log = <<>>
          /\ last.exc = "none"
          /\ wrappers = EmptyMap

\* a reset has called an on_reset hook, which failed, while a hook is
\* registered under on_init
C23_Witness ==
  /\ last.op = "reset"
  /\ last.exc = "HookError"
  /\ last.log # <<>>
  /\ Registered(wrappers, "on_init") # <<>>

\* C24: every element of every weavings list is a (before, after) pair, and
\* _call_weaving run over any of the lists raises nothing.
C24_WeavingEntriesArePairs ==
  \A k \in DOMAIN weavings :
    /\ \A i \in 1..Len(weavings[k]) : Len(weavings[k][i]) = 2
    /\ \A a \in ArgLists :
         CallWeaving(Cur, [kind |-> "list", items |-> weavings[k]], a).exc
           = "none"

\* C25: a get or a removal of a key that is no member fails with
\* NoSuchMember, calls no hook, registered before_get_k / before_del_k hooks
\* included, and leaves the five stores as they were.
C25_AbsentKeyFiresNothing ==
  [][ \A k \in HookKeys :
        (/\ last'.op \in {"getitem", "getattr", "delitem", "delattr"}
         /\ last'.key = k
         /\ k \notin DOMAIN members)
          => /\ last'.exc = "NoSuchMember"
             /\ last'.log = <<>>
             /\ StoresUnchanged ]_vars

\* a get of x has failed with x no member while a before_get_x hook and a
\* before_del_x hook are registered
C25_Witness ==
  /\ last.op = "getitem"
  /\ last.key = "x"
  /\ last.exc = "NoSuchMember"
  /\ "x" \notin DOMAIN members
  /\ Registered(wrappers, "before_get_x") # <<>>
  /\ Registered(wrappers, "before_del_x") # <<>>

====
